---- MODULE Spec2Model ----
(***************************************************************************)
(* Model of _posts/generate_articles.py (GiteeArticleGenerator): the       *)
(* filename sanitizer, the markdown post-processor, the record-to-document *)
(* conversion and the orchestration loop that publishes one file per       *)
(* Gitee issue.  Text is modelled as a sequence of strings: one element    *)
(* per character where the code inspects characters, one element per       *)
(* literal of the template where it only concatenates.                     *)
(***************************************************************************)
EXTENDS Integers, Sequences, FiniteSets, TLC

VARIABLES
    \* ---- the pure functions, applied to enumerated inputs
    title,              \* argument of sanitize_filename
    safe_title,         \* result of the first sanitize_filename call
    safe_again,         \* result of sanitize_filename(safe_title)
    sanPhase,           \* "in" | "once" | "twice"
    markdown_content,   \* argument of process_markdown
    processed,          \* result of process_markdown
    mdPhase,            \* "in" | "out"
    \* ---- the environment of a generate_articles invocation
    remote,             \* the Gitee repository: issue number -> issue detail
    listing,            \* what the issue-listing endpoint returns
    fs,                 \* posts_dir: file name -> file content
    fs0,                \* posts_dir before any invocation started
    clock,              \* seconds shown by the last datetime.now() reading
    \* ---- one generate_articles invocation per element of Procs
    pc,                 \* position of the invocation in generate_articles
    issues,             \* local `issues`
    idx,                \* index of the loop variable `issue` in issues
    issue_detail,       \* local `issue_detail`
    filename,           \* local `filename`
    content,            \* local `content`
    generated_count,    \* local `generated_count`
    st,                 \* per listed record: its stage in the loop body
    fsAtStart           \* posts_dir as it was when the invocation started

fnVars   == <<title, safe_title, safe_again, sanPhase, markdown_content, processed, mdPhase>>
envVars  == <<remote, listing, fs, fs0, clock>>
procVars == <<pc, issues, idx, issue_detail, filename, content, generated_count, st, fsAtStart>>
vars     == <<fnVars, envVars, procVars>>

(***************************************************************************)
(* Bounds.                                                                 *)
(***************************************************************************)
MaxLen    == 4     \* longest title given to sanitize_filename
MaxPieces == 3     \* most markdown fragments in a body given to process_markdown
MaxIssues == 3     \* most issues in the remote repository
MaxClock  == 1     \* datetime.now() readings range over seconds 0..MaxClock
MaxPartial == 1    \* a failing write leaves at most this many elements behind

(***************************************************************************)
(* Text helpers.                                                           *)
(***************************************************************************)
DigitChars == <<"0", "1", "2", "3", "4", "5", "6", "7", "8", "9">>
Digits     == {DigitChars[i] : i \in 1..10}

RECURSIVE Pad(_, _)
\* strftime's zero-padded decimal field of width w
Pad(n, w) == IF w = 0 THEN <<>> ELSE Pad(n \div 10, w - 1) \o <<DigitChars[(n % 10) + 1]>>

RECURSIVE PadMut(_, _)
PadMut(n, w) == IF n < 10 THEN <<DigitChars[n + 1]>>
                ELSE PadMut(n \div 10, w - 1) \o <<DigitChars[(n % 10) + 1]>>

RECURSIVE SeqsUpTo(_, _)
SeqsUpTo(S, n) == IF n = 0 THEN {<<>>}
                  ELSE LET shorter == SeqsUpTo(S, n - 1)
                       IN  shorter \cup {Append(s, c) : s \in shorter, c \in S}

RECURSIVE Flatten(_)
Flatten(ss) == IF ss = <<>> THEN <<>> ELSE Head(ss) \o Flatten(Tail(ss))

RECURSIVE DropWhileIn(_, _)
DropWhileIn(s, S) == IF s # <<>> /\ Head(s) \in S THEN DropWhileIn(Tail(s), S) ELSE s

Reverse(s) == [i \in 1..Len(s) |-> s[Len(s) + 1 - i]]

IsPrefix(p, s) == Len(p) <= Len(s) /\ SubSeq(s, 1, Len(p)) = p

\* datetime values: the fields strftime reads
DateTimes == [Y : {2023}, m : {1}, d : {15}, H : {10}, M : {30}, S : (0..MaxClock) \cup {59}]
NowAt(c)  == [Y |-> 2023, m |-> 1, d |-> 15, H |-> 10, M |-> 30, S |-> c]

(***************************************************************************)
(* sanitize_filename                                                       *)
(***************************************************************************)
Unsafe     == {"<", ">", ":", "\"", "/", "\\", "|", "?", "*"}
Whitespace == {" ", "\t", "\n", "\r", "\f"}

\* re.sub(r'[<>:"/\\|?*]', '', title)
RemoveUnsafe(s) == SelectSeq(s, LAMBDA c : c \notin Unsafe)

RECURSIVE CollapseRuns(_, _)
\* re.sub(r'X+', '-', s): every maximal run of characters of S becomes one hyphen
CollapseRuns(s, S) ==
    IF s = <<>> THEN <<>>
    ELSE IF Head(s) \in S THEN <<"-">> \o CollapseRuns(DropWhileIn(Tail(s), S), S)
    ELSE <<Head(s)>> \o CollapseRuns(Tail(s), S)

\* str.strip('-')
StripHyphens(s) == Reverse(DropWhileIn(Reverse(DropWhileIn(s, {"-"})), {"-"}))

\* strftime('%Y%m%d-%H%M%S')
StrftimeMutColon(t) == Pad(t.Y, 4) \o Pad(t.m, 2) \o Pad(t.d, 2) \o <<"-">>
                       \o Pad(t.H, 2) \o <<":">> \o Pad(t.M, 2) \o <<":">> \o Pad(t.S, 2)
StrftimeMutNoPad(t) == Pad(t.Y, 4) \o Pad(t.m, 2) \o Pad(t.d, 2) \o <<"-">>
                       \o Pad(t.H, 2) \o Pad(t.M, 2) \o PadMut(t.S, 2)
Strftime(t) == Pad(t.Y, 4) \o Pad(t.m, 2) \o Pad(t.d, 2) \o <<"-">>
               \o Pad(t.H, 2) \o Pad(t.M, 2) \o Pad(t.S, 2)

ArticlePrefix == <<"a", "r", "t", "i", "c", "l", "e", "-">>

\* lines 65-68: the slug before the emptiness test
SlugMutOrder(s) == StripHyphens(CollapseRuns(CollapseRuns(RemoveUnsafe(s), {"-"}), Whitespace))
Slug(s) == StripHyphens(CollapseRuns(CollapseRuns(RemoveUnsafe(s), Whitespace), {"-"}))

\* sanitize_filename(title) when datetime.now() returns `now`
sanitize_filename(t, now) ==
    LET slug == Slug(t)
    IN  IF slug = <<>> THEN ArticlePrefix \o Strftime(now) ELSE slug

(***************************************************************************)
(* process_markdown                                                        *)
(***************************************************************************)
\* the least position of hits, or 0 when there is none
Least(hits) == IF hits = {} THEN 0 ELSE CHOOSE i \in hits : \A j \in hits : i <= j

\* The end of the match of !\[.*?\]\(.*?\) that starts at i, or 0: the lazy
\* .*? stops at the first "](" after "![" and then at the first ")".
ImageEnd(line, i) ==
    IF ~(i + 1 <= Len(line) /\ line[i] = "!" /\ line[i + 1] = "[") THEN 0
    ELSE LET j == Least({x \in (i + 2)..(Len(line) - 1) :
                            line[x] = "]" /\ line[x + 1] = "("})
         IN  IF j = 0 THEN 0
             ELSE Least({x \in (j + 2)..Len(line) : line[x] = ")"})

RECURSIVE SubImages(_, _)
\* re.sub(r'!\[.*?\]\(.*?\)', '', line), scanning from position i: leftmost,
\* non-overlapping matches are dropped in a single pass
SubImages(line, i) ==
    IF i > Len(line) THEN <<>>
    ELSE LET e == ImageEnd(line, i)
         IN  IF e = 0 THEN <<line[i]>> \o SubImages(line, i + 1)
             ELSE SubImages(line, e + 1)

HasImage(line) == \E i \in 1..Len(line) : ImageEnd(line, i) # 0

RECURSIVE Split(_)
\* str.split('\n')
Split(s) ==
    LET n == Least({x \in 1..Len(s) : s[x] = "\n"})
    IN  IF n = 0 THEN <<s>>
        ELSE <<SubSeq(s, 1, n - 1)>> \o Split(SubSeq(s, n + 1, Len(s)))

RECURSIVE Join(_)
\* '\n'.join(lines)
Join(lines) ==
    IF lines = <<>> THEN <<>>
    ELSE IF Len(lines) = 1 THEN lines[1]
    ELSE lines[1] \o <<"\n">> \o Join(Tail(lines))

process_markdown(body) ==
    IF body = <<>> THEN <<>>
    ELSE LET lines == Split(body)
         IN  Join([k \in 1..Len(lines) |-> SubImages(lines[k], 1)])

(***************************************************************************)
(* convert_to_jekyll_post                                                  *)
(***************************************************************************)
\* created_date.strftime('%Y-%m-%d')
DateStr(t) == Pad(t.Y, 4) \o <<"-">> \o Pad(t.m, 2) \o <<"-">> \o Pad(t.d, 2)

\* strftime('%Y-%m-%d %H:%M:%S %z') of a timestamp the API gives with offset +08:00
DateTimeStr(t) == DateStr(t) \o <<" ">> \o Pad(t.H, 2) \o <<":">> \o Pad(t.M, 2)
                  \o <<":">> \o Pad(t.S, 2) \o <<" +0800">>

\* str(number) for the issue numbers of the model
NumStr(n) == IF n < 10 THEN <<DigitChars[n + 1]>> ELSE Pad(n, 2)

\* lines 95-110
FrontMatter(issue) ==
    <<"---\ntitle: \"">> \o issue.title
    \o <<"\"\ndate: ">> \o DateTimeStr(issue.created_at)
    \o <<"\nlast_modified_at: ">> \o DateTimeStr(issue.updated_at)
    \o <<"\ncategories: [Gitee Issues]\ntags: [">> \o NumStr(issue.number)
    \o <<"]\ncomments: true\n---\n\n## link: Issue #">> \o NumStr(issue.number)
    \o <<"\n\n---\n\n">>

\* not body.strip()
IsBlank(body) == \A i \in 1..Len(body) : body[i] \in Whitespace

\* lines 112-117
BodyContent(issue) ==
    IF IsBlank(issue.body)
    THEN <<"**">> \o issue.title \o <<"**\n\n> ">> \o <<"empty-body notice">>
    ELSE process_markdown(issue.body)

convert_to_jekyll_post(issue, now) ==
    [filename |-> DateStr(issue.created_at) \o <<"-">>
                  \o sanitize_filename(issue.title, now) \o <<".md">>,
     content  |-> FrontMatter(issue) \o BodyContent(issue)]

(***************************************************************************)
(* The environment: the remote repository and posts_dir                    *)
(***************************************************************************)
Procs     == {1, 2}
Numbers   == 1..MaxIssues
PipeTitles == {<<"a">>, <<"?">>}          \* the second one has an empty slug
Bodies    == {<<>>, <<"x">>}
CreatedAt == [Y |-> 2023, m |-> 1, d |-> 15, H |-> 10, M |-> 30, S |-> 0]

\* the JSON object the single-issue endpoint returns for issue n
Detail(n) == [number |-> n, title |-> remote[n].title, body |-> remote[n].body,
              created_at |-> CreatedAt, updated_at |-> CreatedAt]

\* the JSON array the listing endpoint returns: the first L issues, those of M
\* without a usable 'number'
Listings == {[i \in 1..L |-> [number |-> IF i \in M THEN 0 ELSE i]] :
                L \in 0..MaxIssues, M \in SUBSET (1..MaxIssues)}

OldContent == <<"old">>
NameA  == DateStr(CreatedAt) \o <<"-">> \o <<"a">> \o <<".md">>
NameF0 == DateStr(CreatedAt) \o <<"-">> \o ArticlePrefix \o Strftime(NowAt(0)) \o <<".md">>
InitialDirs == {[f \in D |-> OldContent] : D \in SUBSET {NameA, NameF0}}

\* filepath.exists()
ExistsMut(f) == FALSE
Exists(f) == f \in DOMAIN fs

\* what a write of `new` at offset 0 leaves of a file holding `old`
Overlay(old, new) == new \o SubSeq(old, Len(new) + 1, Len(old))

\* posts_dir with file f holding c
WithFile(dir, f, c) == [g \in DOMAIN dir \cup {f} |-> IF g = f THEN c ELSE dir[g]]

Min(a, b) == IF a < b THEN a ELSE b

(***************************************************************************)
(* generate_articles, one invocation p                                     *)
(***************************************************************************)
NoFile == <<>>

\* the stages of the loop body a listed record goes through
Terminal == {"SKIPPED", "WRITTEN", "WRITE_FAILED"}
NotFetched == {"NO_NUMBER", "FETCH_FAILED"}

\* a failed fetch ends the run instead of skipping the record
NextIssueAbort(p, stage) ==
    /\ st' = [st EXCEPT ![p][idx[p]] = stage]
    /\ idx' = [idx EXCEPT ![p] = IF stage = "FETCH_FAILED" THEN idx[p] ELSE idx[p] + 1]
    /\ pc' = [pc EXCEPT ![p] = IF stage = "FETCH_FAILED" THEN "done" ELSE "loop"]

\* a failed save is tried again instead of being given up
NextIssueRetry(p, stage) ==
    /\ st' = [st EXCEPT ![p][idx[p]] = stage]
    /\ idx' = [idx EXCEPT ![p] = IF stage = "WRITE_FAILED" THEN idx[p] ELSE idx[p] + 1]
    /\ pc' = [pc EXCEPT ![p] = IF stage = "WRITE_FAILED" THEN "transformed" ELSE "loop"]

\* `continue`, or falling off the end of the loop body: on to the next issue
NextIssue(p, stage) ==
    /\ st' = [st EXCEPT ![p][idx[p]] = stage]
    /\ idx' = [idx EXCEPT ![p] = idx[p] + 1]
    /\ pc' = [pc EXCEPT ![p] = "loop"]

\* lines 158-163, get_all_issues succeeded
ListOk(p) ==
    /\ pc[p] = "start"
    /\ issues' = [issues EXCEPT ![p] = listing]
    /\ st' = [st EXCEPT ![p] = [i \in 1..Len(listing) |-> "LISTED"]]
    /\ fsAtStart' = [fsAtStart EXCEPT ![p] = fs]
    /\ pc' = [pc EXCEPT ![p] = IF listing = <<>> THEN "done" ELSE "loop"]
    /\ UNCHANGED <<idx, issue_detail, filename, content, generated_count, envVars, fnVars>>

\* lines 45-47 and 159-161: the listing request failed, [] is returned
ListFail(p) ==
    /\ pc[p] = "start"
    /\ fsAtStart' = [fsAtStart EXCEPT ![p] = fs]
    /\ pc' = [pc EXCEPT ![p] = "done"]
    /\ UNCHANGED <<issues, st, idx, issue_detail, filename, content, generated_count,
                   envVars, fnVars>>

\* lines 187-188: generated_count after save_article returned `ok`
CountAfterSaveMut(p, ok) == generated_count[p] + 1
CountAfterSave(p, ok) == IF ok THEN generated_count[p] + 1 ELSE generated_count[p]

AtIssue(p) == pc[p] = "loop" /\ idx[p] <= Len(issues[p])

\* lines 166-168
SkipNoNumber(p) ==
    /\ AtIssue(p)
    /\ issues[p][idx[p]].number = 0
    /\ NextIssue(p, "NO_NUMBER")
    /\ UNCHANGED <<issues, issue_detail, filename, content, generated_count, fsAtStart,
                   envVars, fnVars>>

\* line 173, get_issue_content returned the issue
FetchOk(p) ==
    /\ AtIssue(p)
    /\ issues[p][idx[p]].number # 0
    /\ issue_detail' = [issue_detail EXCEPT ![p] = Detail(issues[p][idx[p]].number)]
    /\ st' = [st EXCEPT ![p][idx[p]] = "FETCHED"]
    /\ pc' = [pc EXCEPT ![p] = "fetched"]
    /\ UNCHANGED <<issues, idx, filename, content, generated_count, fsAtStart,
                   envVars, fnVars>>

\* lines 58-60 and 174-175, get_issue_content returned None
FetchFail(p) ==
    /\ AtIssue(p)
    /\ issues[p][idx[p]].number # 0
    /\ NextIssue(p, "FETCH_FAILED")
    /\ UNCHANGED <<issues, issue_detail, filename, content, generated_count, fsAtStart,
                   envVars, fnVars>>

\* line 178; datetime.now() is read only on the empty-slug path (line 72)
Convert(p) ==
    /\ pc[p] = "fetched"
    /\ \E t \in clock..MaxClock :
          LET post == convert_to_jekyll_post(issue_detail[p], NowAt(t))
          IN  /\ clock' = IF Slug(issue_detail[p].title) = <<>> THEN t ELSE clock
              /\ (Slug(issue_detail[p].title) # <<>> => t = clock)
              /\ filename' = [filename EXCEPT ![p] = post.filename]
              /\ content' = [content EXCEPT ![p] = post.content]
    /\ st' = [st EXCEPT ![p][idx[p]] = "TRANSFORMED"]
    /\ pc' = [pc EXCEPT ![p] = "transformed"]
    /\ UNCHANGED <<issues, idx, issue_detail, generated_count, fsAtStart,
                   remote, listing, fs, fs0, fnVars>>

\* lines 181-184
SkipExists(p) ==
    /\ pc[p] = "transformed"
    /\ Exists(filename[p])
    /\ NextIssue(p, "SKIPPED")
    /\ UNCHANGED <<issues, issue_detail, filename, content, generated_count, fsAtStart,
                   envVars, fnVars>>

\* line 182 found no file: save_article is called
CheckAbsent(p) ==
    /\ pc[p] = "transformed"
    /\ ~Exists(filename[p])
    /\ pc' = [pc EXCEPT ![p] = "saving"]
    /\ UNCHANGED <<issues, idx, issue_detail, filename, content, generated_count, st,
                   fsAtStart, envVars, fnVars>>

\* line 144: open(filepath, 'w') creates the file or truncates it
SaveOpen(p) ==
    /\ pc[p] = "saving"
    /\ fs' = WithFile(fs, filename[p], NoFile)
    /\ pc' = [pc EXCEPT ![p] = "opened"]
    /\ UNCHANGED <<issues, idx, issue_detail, filename, content, generated_count, st,
                   fsAtStart, remote, listing, fs0, clock, fnVars>>

\* line 144 raised; lines 148-150 return False
SaveOpenFail(p) ==
    /\ pc[p] = "saving"
    /\ generated_count' = [generated_count EXCEPT ![p] = CountAfterSave(p, FALSE)]
    /\ NextIssue(p, "WRITE_FAILED")
    /\ UNCHANGED <<issues, issue_detail, filename, content, fsAtStart, envVars, fnVars>>

\* lines 145-147 and 187-188: the content goes to offset 0 of the open file
SaveWrite(p) ==
    /\ pc[p] = "opened"
    /\ fs' = WithFile(fs, filename[p], Overlay(fs[filename[p]], content[p]))
    /\ generated_count' = [generated_count EXCEPT ![p] = CountAfterSave(p, TRUE)]
    /\ NextIssue(p, "WRITTEN")
    /\ UNCHANGED <<issues, issue_detail, filename, content, fsAtStart,
                   remote, listing, fs0, clock, fnVars>>

\* line 145 or the close raised after k elements went out; lines 148-150
SaveWriteFail(p) ==
    /\ pc[p] = "opened"
    /\ \E k \in 0..Min(MaxPartial, Len(content[p]) - 1) :
          fs' = WithFile(fs, filename[p],
                         Overlay(fs[filename[p]], SubSeq(content[p], 1, k)))
    /\ generated_count' = [generated_count EXCEPT ![p] = CountAfterSave(p, FALSE)]
    /\ NextIssue(p, "WRITE_FAILED")
    /\ UNCHANGED <<issues, issue_detail, filename, content, fsAtStart,
                   remote, listing, fs0, clock, fnVars>>

\* lines 190-199: the loop is over, the summary is printed
Finish(p) ==
    /\ pc[p] = "loop"
    /\ idx[p] > Len(issues[p])
    /\ pc' = [pc EXCEPT ![p] = "done"]
    /\ UNCHANGED <<issues, idx, issue_detail, filename, content, generated_count, st,
                   fsAtStart, envVars, fnVars>>

\* the issue is edited on Gitee
EditRemote ==
    /\ \E n \in Numbers, b \in Bodies :
          /\ b # remote[n].body
          /\ remote' = [remote EXCEPT ![n].body = b]
    /\ UNCHANGED <<listing, fs, fs0, clock, procVars, fnVars>>

SanIdle ==
    /\ title = <<>> /\ safe_title = <<>> /\ safe_again = <<>> /\ sanPhase = "idle"

MdIdle ==
    /\ markdown_content = <<>> /\ processed = <<>> /\ mdPhase = "idle"

ProcInit ==
    /\ pc = [p \in Procs |-> "start"]
    /\ issues = [p \in Procs |-> <<>>]
    /\ idx = [p \in Procs |-> 1]
    /\ issue_detail = [p \in Procs |-> Detail(1)]
    /\ filename = [p \in Procs |-> <<>>]
    /\ content = [p \in Procs |-> <<>>]
    /\ generated_count = [p \in Procs |-> 0]
    /\ st = [p \in Procs |-> <<>>]
    /\ fsAtStart = [p \in Procs |-> fs0]

PipeInit ==
    /\ \E b \in Bodies : remote \in [Numbers -> [title : PipeTitles, body : {b}]]
    /\ listing \in Listings
    /\ fs0 \in InitialDirs
    /\ fs = fs0
    /\ clock = 0
    /\ ProcInit

Init == PipeInit /\ SanIdle /\ MdIdle

Step(p) ==
    \/ ListOk(p)
    \/ ListFail(p)
    \/ SkipNoNumber(p)
    \/ FetchOk(p)
    \/ FetchFail(p)
    \/ Convert(p)
    \/ SkipExists(p)
    \/ CheckAbsent(p)
    \/ SaveOpen(p)
    \/ SaveOpenFail(p)
    \/ SaveWrite(p)
    \/ SaveWriteFail(p)
    \/ Finish(p)

\* One invocation of the tool.
Next == Step(1)

Spec == Init /\ [][Next]_vars

\* The tool is run, and run again once the first invocation has ended.
RerunNext == \E p \in Procs : (p = 1 \/ pc[1] = "done") /\ Step(p)

RerunSpec == Init /\ [][RerunNext]_vars

\* Two invocations at the same time against the same posts_dir, the listing
\* holding at most one record.
RaceInit == Init /\ Len(listing) <= 1

RaceNext == (\E p \in Procs : Step(p)) \/ EditRemote

RaceSpec == RaceInit /\ [][RaceNext]_vars

(***************************************************************************)
(* The pure functions on enumerated inputs                                 *)
(***************************************************************************)
PipeIdle ==
    /\ remote = [n \in Numbers |-> [title |-> <<"a">>, body |-> <<>>]]
    /\ listing = <<>>
    /\ fs0 = [f \in {} |-> OldContent]
    /\ fs = fs0
    /\ clock = 0
    /\ ProcInit

TitleChars == {"a", "-", " ", "\t", "?", ":"}

SanInit ==
    /\ title \in SeqsUpTo(TitleChars, MaxLen)
    /\ safe_title = <<>> /\ safe_again = <<>> /\ sanPhase = "in"
    /\ MdIdle /\ PipeIdle

\* safe_title = self.sanitize_filename(title)
Sanitize ==
    /\ sanPhase = "in"
    /\ \E now \in DateTimes : safe_title' = sanitize_filename(title, now)
    /\ sanPhase' = "once"
    /\ UNCHANGED <<title, safe_again, markdown_content, processed, mdPhase, envVars, procVars>>

\* self.sanitize_filename(safe_title), at the same or another time
SanitizeAgain ==
    /\ sanPhase = "once"
    /\ \E now \in DateTimes : safe_again' = sanitize_filename(safe_title, now)
    /\ sanPhase' = "twice"
    /\ UNCHANGED <<title, safe_title, markdown_content, processed, mdPhase, envVars, procVars>>

SanNext == Sanitize \/ SanitizeAgain

SanSpec == SanInit /\ [][SanNext]_vars

\* markdown fragments bodies are put together from
Pieces == {<<"!">>, <<"[">>, <<")">>, <<"a">>, <<"\n">>,
           <<"!", "[", "a", "]", "(", "b", ")">>,
           <<"[", "x", "]", "(", "y", ")">>}

MdInit ==
    /\ markdown_content \in {Flatten(ps) : ps \in SeqsUpTo(Pieces, MaxPieces)}
    /\ processed = <<>> /\ mdPhase = "in"
    /\ SanIdle /\ PipeIdle

\* content = self.process_markdown(body)
ProcessMarkdown ==
    /\ mdPhase = "in"
    /\ processed' = process_markdown(markdown_content)
    /\ mdPhase' = "out"
    /\ UNCHANGED <<markdown_content, title, safe_title, safe_again, sanPhase, envVars, procVars>>

MdNext == ProcessMarkdown

MdSpec == MdInit /\ [][MdNext]_vars

(***************************************************************************)
(* Properties                                                              *)
(***************************************************************************)
Forbidden == {"<", ">", ":", "\"", "/", "\\", "|", "?", "*"}

\* the document record i of invocation p's listing renders to when
\* datetime.now() shows second t
PostOf(p, i, t) == convert_to_jekyll_post(Detail(issues[p][i].number), NowAt(t))

\* the seconds datetime.now() may have shown when record i was converted
\* (the document depends on it only when the slug is empty)
ReadingsFor(p, i) ==
    IF Slug(remote[issues[p][i].number].title) = <<>> THEN 0..MaxClock ELSE {0}

\* the documents the records invocation p has written can have rendered to
WrittenPosts(p) ==
    {PostOf(p, c[1], c[2]) :
        c \in {d \in (DOMAIN st[p]) \X (0..MaxClock) :
                  st[p][d[1]] = "WRITTEN" /\ d[2] \in ReadingsFor(p, d[1])}}

\* record i of invocation p is on disk, whole
OnDisk(p, i) ==
    \E t \in ReadingsFor(p, i) :
        LET post == PostOf(p, i, t)
        IN  post.filename \in DOMAIN fs /\ fs[post.filename] = post.content

\* no invocation is between open() and close() on file f
NotOpen(f) == \A p \in Procs : ~(pc[p] = "opened" /\ filename[p] = f)

\* C1: when the rendered filename exists at the time the record is processed,
\* the step taken leaves posts_dir and generated_count as they are and the
\* record is skipped; and a file nobody has open for writing keeps its bytes.
C1_ExistingFileUntouched ==
    /\ [][\A p \in Procs :
            (pc[p] = "transformed" /\ filename[p] \in DOMAIN fs /\ pc'[p] # pc[p])
            => /\ fs' = fs
               /\ generated_count'[p] = generated_count[p]
               /\ st'[p][idx[p]] = "SKIPPED"]_vars
    /\ [][\A f \in DOMAIN fs :
            NotOpen(f) => (f \in DOMAIN fs' /\ fs'[f] = fs[f])]_vars

C1_Witness ==
    /\ pc[1] = "loop" /\ idx[1] = 3
    /\ st[1][1] = "WRITTEN" /\ st[1][2] = "SKIPPED"
    /\ filename[1] \in DOMAIN fs0
    /\ fs[filename[1]] = OldContent
    /\ generated_count[1] = 1

\* C2: a failed detail fetch changes no file and no counter and moves the loop
\* to the next record; every record written by the run stays on disk whole at
\* all later times; and when the run ends every listed record has been dealt
\* with.
C2_FetchFailureIsolated ==
    /\ [][\A p \in Procs :
            (AtIssue(p) /\ st'[p][idx[p]] = "FETCH_FAILED")
            => /\ fs' = fs
               /\ generated_count'[p] = generated_count[p]
               /\ pc'[p] = "loop"
               /\ idx'[p] = idx[p] + 1]_vars
    /\ [](\A p \in Procs : \A i \in DOMAIN st[p] : st[p][i] = "WRITTEN" => OnDisk(p, i))
    /\ [](\A p \in Procs :
            (pc[p] = "done" /\ issues[p] # <<>>)
            => \A i \in DOMAIN st[p] : st[p][i] \in Terminal \cup NotFetched)

C2_Witness ==
    /\ pc[1] = "done"
    /\ st[1] = <<"WRITTEN", "FETCH_FAILED", "WRITTEN">>
    /\ OnDisk(1, 1)
    /\ generated_count[1] = 2

\* the files this invocation made: absent at its start, now holding the whole
\* document of one of its records
NewDocuments(p) ==
    {f \in DOMAIN fs \ DOMAIN fsAtStart[p] :
        \E post \in WrittenPosts(p) : post.filename = f /\ post.content = fs[f]}

\* C3: at every point of the run generated_count is the number of records the
\* run has written, which is the number of whole documents it added to
\* posts_dir.
C3_CountIsNewlyWritten ==
    /\ generated_count[1] = Cardinality({i \in DOMAIN st[1] : st[1][i] = "WRITTEN"})
    /\ generated_count[1] = Cardinality(NewDocuments(1))

C3_Witness ==
    /\ pc[1] = "done"
    /\ st[1] = <<"WRITE_FAILED", "WRITTEN", "SKIPPED">>
    /\ generated_count[1] = 1
    /\ Cardinality(DOMAIN fs \ DOMAIN fs0) = 2

StageEdges ==
    {<<"LISTED", "NO_NUMBER">>, <<"LISTED", "FETCH_FAILED">>, <<"LISTED", "FETCHED">>,
     <<"FETCHED", "TRANSFORMED">>,
     <<"TRANSFORMED", "SKIPPED">>, <<"TRANSFORMED", "WRITTEN">>,
     <<"TRANSFORMED", "WRITE_FAILED">>}

\* C4: a record changes stage only along FETCHED -> TRANSFORMED -> SKIPPED |
\* WRITTEN | WRITE_FAILED, so the three are final; a record is taken up only
\* when every earlier one is final or was not fetched; and a record is
\* FETCHED or TRANSFORMED exactly while the loop is at it, at the
\* conversion or between the existence check and the end of save_article.
C4_RecordStateMachine ==
    /\ [][\A p \in Procs : \A i \in DOMAIN st[p] :
            /\ i \in DOMAIN st'[p]
            /\ st'[p][i] = st[p][i] \/ <<st[p][i], st'[p][i]>> \in StageEdges]_vars
    /\ [](\A p \in Procs : \A i \in DOMAIN st[p], j \in DOMAIN st[p] :
            (i < j /\ st[p][j] # "LISTED") => st[p][i] \in Terminal \cup NotFetched)
    /\ [](\A p \in Procs : \A i \in DOMAIN st[p] :
            /\ st[p][i] = "FETCHED" <=> (idx[p] = i /\ pc[p] = "fetched")
            /\ st[p][i] = "TRANSFORMED"
                 <=> (idx[p] = i /\ pc[p] \in {"transformed", "saving", "opened"}))

C4_Witness ==
    /\ Len(issues[1]) >= 2
    /\ st[1][1] = "WRITE_FAILED" /\ st[1][2] = "TRANSFORMED"
    /\ filename[1] \in DOMAIN fs /\ fs[filename[1]] # content[1]

\* the lines of a text
Lines(s) == Split(s)

\* C5: the output of process_markdown has no ![...](...) left in any line, has
\* as many lines as the input, and repeats every input line without one.
C5_NoImageLeft ==
    mdPhase = "out" =>
        /\ \A k \in 1..Len(Lines(processed)) : ~HasImage(Lines(processed)[k])
        /\ Len(Lines(processed)) = Len(Lines(markdown_content))
        /\ \A k \in 1..Len(Lines(markdown_content)) :
              ~HasImage(Lines(markdown_content)[k])
              => Lines(processed)[k] = Lines(markdown_content)[k]

\* C6: the result of sanitize_filename holds none of < > : " / \ | ? *,
\* on the fallback path too.
C6_NoForbiddenCharacter ==
    sanPhase \in {"once", "twice"} =>
        \A i \in 1..Len(safe_title) : safe_title[i] \notin Forbidden

C6_Witness ==
    /\ sanPhase = "once"
    /\ \E i \in 1..Len(title) : title[i] \in Forbidden
    /\ IsPrefix(ArticlePrefix, safe_title)

\* the title is all forbidden characters, whitespace and hyphens: nothing is
\* left of it after lines 65-68
EmptiesOut(t) == \A i \in 1..Len(t) : t[i] \in Forbidden \cup Whitespace \cup {"-"}

AllDigits(s) == \A i \in 1..Len(s) : s[i] \in Digits

\* C7 as stated: for a title that empties out the result is 'article-' and
\* exactly 14 digits.
C7_FallbackFourteenDigits ==
    (sanPhase \in {"once", "twice"} /\ EmptiesOut(title)) =>
        /\ IsPrefix(ArticlePrefix, safe_title)
        /\ Len(safe_title) = Len(ArticlePrefix) + 14
        /\ AllDigits(SubSeq(safe_title, Len(ArticlePrefix) + 1, Len(safe_title)))

\* C7 amended: for a title that empties out the result is 'article-', 8
\* digits, a hyphen and 6 digits (article-YYYYMMDD-HHMMSS), so it is not
\* empty.
C7_FallbackDateHyphenTime ==
    (sanPhase \in {"once", "twice"} /\ EmptiesOut(title)) =>
        LET rest == SubSeq(safe_title, Len(ArticlePrefix) + 1, Len(safe_title))
        IN  /\ IsPrefix(ArticlePrefix, safe_title)
            /\ Len(rest) = 15
            /\ AllDigits(SubSeq(rest, 1, 8))
            /\ rest[9] = "-"
            /\ AllDigits(SubSeq(rest, 10, 15))

C7_Witness ==
    /\ sanPhase = "once"
    /\ Len(title) = MaxLen /\ EmptiesOut(title)
    /\ \E i \in 1..Len(title) : title[i] = " "
    /\ Len(safe_title) = 23

\* C8: once two invocations have both found the file of one record absent and
\* both written it, the file holds what the later of the two writes wrote,
\* and that write changed no other file.
C8_LastWriterWins ==
    [][\A p \in Procs, q \in Procs :
          ( /\ p # q
            /\ pc[p] = "opened" /\ st'[p][idx[p]] = "WRITTEN"
            /\ pc[q] \in {"loop", "done"} /\ idx[q] > 1 /\ st[q][idx[q] - 1] = "WRITTEN"
            /\ filename[q] = filename[p]
            /\ issue_detail[q].number = issue_detail[p].number )
          => /\ fs'[filename[p]] = content[p]
             /\ \A g \in DOMAIN fs : g # filename[p] => fs'[g] = fs[g]]_vars

\* C9: sanitizing the result of sanitize_filename gives that result again.
C9_SanitizeIdempotent ==
    sanPhase = "twice" => safe_again = safe_title

C9_Witness ==
    /\ sanPhase = "twice"
    /\ title = <<" ", "a", "-", " ">>
    /\ safe_title = <<"a">>
    /\ safe_again = <<"a">>

\* C10: after a first run that listed the records and fetched and saved (or
\* found on disk) every one of them, a finished second run over the same
\* records has changed posts_dir in nothing and counts 0 new documents.
C10_SecondRunWritesNothing ==
    ( /\ pc[1] = "done" /\ pc[2] = "done"
      /\ issues[1] = listing /\ issues[2] = listing
      /\ \A i \in DOMAIN st[1] : st[1][i] \in {"WRITTEN", "SKIPPED", "NO_NUMBER"} )
    => (fs = fsAtStart[2] /\ generated_count[2] = 0)

====
